---------------------------- MODULE Spec2Model ----------------------------
(***************************************************************************)
(* Policy-as-code reconciliation core of CW-TLM-Examples:                  *)
(*   - ring eligibility       (is_policy_allowed_in_ring)                  *)
(*   - reconciliation         (apply_all, and the Jamf main loop)          *)
(*   - policy validation      (lint_policy, generic and Jamf-aware)        *)
(*   - drift detection        (normalize_settings, compare)                *)
(*                                                                         *)
(* JSON values are tagged records [t, v]; a Python dict is a function from *)
(* its keys to JSON values, a Python list a sequence, a Python string a    *)
(* sequence of tokens ("_" and "NL" are one whitespace character each, any *)
(* other token a run of non-whitespace characters).  None is Null.        *)
(* A settings value handed to the drift check keeps the key order of its   *)
(* JSON text: there a dict is a sequence of <<key, value>> pairs ("obj").  *)
(***************************************************************************)
EXTENDS Integers, Sequences, FiniteSets, TLC

VARIABLES
    engine,     \* "tools" (examples/tools), "jamf" (examples/policy_as_code/policies)
                \* or, for the drift check, "skeleton" (src/tools)
    conn,       \* the connector behind the engine: "demo", "api" or "jamf"
    ring,       \* the --ring argument, after main's check against ALLOWED_RINGS
    policies,   \* the loaded batch, a sequence of policy documents
    backend,    \* what the device-management backend holds, by policy name
    pc,         \* "loop", "done" (results returned) or "raised" (exception left the loop)
    idx,        \* index of the next policy of the batch
    results,    \* the ApplyResult list of the current run
    run,        \* 1 for the first reconcile of the batch, 2 for the repeat
    first,      \* the ApplyResult list the first run returned
    calls,      \* connector calls of the current run, in order
    faults,     \* connector calls that raised so far
    doc,        \* the document handed to a pure function (eligibility, lint)
    eligible,   \* outcome of is_policy_allowed_in_ring(doc, ring)
    errors,     \* outcome of lint_policy(doc)
    desired,    \* drift check: desired policies by name
    actual,     \* drift check: actual snapshot by name
    drift,      \* outcome of compare(desired, actual)
    args,       \* command line and environment of the apply command
    exit,       \* its exit code <<n>>, <<>> while it runs
    audit,      \* the audit record it wrote
    auth        \* a JamfAuth instance, its token endpoint and the callers of token()

vars == <<engine, conn, ring, policies, backend, pc, idx, results, run, first,
          calls, faults, doc, eligible, errors, desired, actual, drift,
          args, exit, audit, auth>>

reconcileVars == <<engine, conn, ring, policies, backend, pc, idx, results, run,
                   first, calls, faults>>
eligVars == <<doc, eligible>>
lintVars == <<errors>>
driftVars == <<desired, actual, drift>>
mainVars == <<args, exit, audit>>
authVars == <<auth>>

---------------------------------------------------------------------------
(* JSON / Python values *)

Null == [t |-> "null", v |-> 0]
Bool(b) == [t |-> "bool", v |-> b]
Num(n) == [t |-> "int", v |-> n]
Float(h) == [t |-> "float", v |-> h]      \* h hundredths: Float(95) is 0.95
Str(s) == [t |-> "str", v |-> s]
Word(w) == [t |-> "str", v |-> <<w>>]
List(s) == [t |-> "list", v |-> s]
Dict(f) == [t |-> "dict", v |-> f]
EmptyDict == [t |-> "dict", v |-> <<>>]

\* A dict with its insertion order: pairs <<key, value>>, keys distinct.
Obj(pairs) == [t |-> "obj", v |-> pairs]
Keys(o) == {o.v[i][1] : i \in 1..Len(o.v)}
Lookup(o, k) == o.v[CHOOSE i \in 1..Len(o.v) : o.v[i][1] = k][2]

\* Python truthiness: None, False, 0, "", [] and {} are falsy.
Truthy(x) ==
    CASE x.t = "null" -> FALSE
      [] x.t = "bool" -> x.v
      [] x.t \in {"int", "float"} -> x.v # 0
      [] x.t = "str" -> Len(x.v) > 0
      [] x.t = "list" -> Len(x.v) > 0
      [] x.t = "dict" -> DOMAIN x.v # {}

\* dict.get(key): the value, or None for a missing key.
Get(d, key) == IF key \in DOMAIN d.v THEN d.v[key] ELSE Null

\* `x or {}`
OrEmptyDict(x) == IF Truthy(x) THEN x ELSE EmptyDict

\* bool is a subclass of int: the number a bool, int or float stands for, in
\* hundredths.
IsNumber(x) == x.t \in {"bool", "int", "float"}
Hundredths(x) ==
    CASE x.t = "bool" -> IF x.v THEN 100 ELSE 0
      [] x.t = "int" -> 100 * x.v
      [] x.t = "float" -> x.v

\* Python == on JSON values.  Numbers compare by value (True == 1 == 1.0),
\* values of different types are otherwise unequal, dicts compare by key set
\* and values, lists element by element in order.
RECURSIVE PyEq(_, _)
PyEq(a, b) ==
    CASE IsNumber(a) /\ IsNumber(b) -> Hundredths(a) = Hundredths(b)
      [] a.t # b.t -> FALSE
      [] a.t = "null" -> TRUE
      [] a.t = "str" -> a.v = b.v
      [] a.t = "list" ->
            /\ Len(a.v) = Len(b.v)
            /\ \A i \in 1..Len(a.v) : PyEq(a.v[i], b.v[i])
      [] a.t = "dict" ->
            /\ DOMAIN a.v = DOMAIN b.v
            /\ \A k \in DOMAIN a.v : PyEq(a.v[k], b.v[k])
      [] a.t = "obj" ->
            /\ Keys(a) = Keys(b)
            /\ \A k \in Keys(a) : PyEq(Lookup(a, k), Lookup(b, k))

\* `x in lst` for a Python list
InList(x, lst) == \E i \in 1..Len(lst.v) : PyEq(lst.v[i], x)

\* Whitespace characters: a blank and a newline.
Whitespace == {"_", "NL"}

\* str.strip(): leading and trailing whitespace removed
RECURSIVE LStrip(_)
LStrip(s) == IF s # <<>> /\ Head(s) \in Whitespace THEN LStrip(Tail(s)) ELSE s
RECURSIVE RStrip(_)
RStrip(s) ==
    IF s # <<>> /\ s[Len(s)] \in Whitespace THEN RStrip(SubSeq(s, 1, Len(s) - 1)) ELSE s
Strip(s) == RStrip(LStrip(s))

ALLOWED_RINGS == {"qa", "security", "early", "global"}

AllRingsList == List(<<Word("qa"), Word("security"), Word("early"), Word("global")>>)

---------------------------------------------------------------------------
(* Bounds *)

MaxFaults == 1        \* connector calls that may raise in one behaviour
MaxBatch == 2         \* policies in a batch
MaxEdits == 2         \* fields in which a linted document differs from a sample policy
MaxRingList == 2      \* longest scope.supported_rings list enumerated
MaxNest == 2          \* nesting depth of the settings values compared for drift
MaxCallers == 2       \* threads calling JamfAuth.token()
MaxTokenCalls == 4    \* calls of JamfAuth.token() in one behaviour

---------------------------------------------------------------------------
(* Ring eligibility *)

\* A call either returns a value or raises.
Ret(b) == [raised |-> FALSE, value |-> b]
Raised == [raised |-> TRUE, value |-> FALSE]

\* is_policy_allowed_in_ring failing open: a supported_rings that is not a
\* list allows every ring.
is_policy_allowed_in_ring_open(policy, r) ==
    LET scope == OrEmptyDict(Get(policy, "scope")) IN
    IF scope.t # "dict" THEN Raised
    ELSE LET supported == Get(scope, "supported_rings") IN
         IF supported.t = "list" THEN Ret(InList(Word(r), supported)) ELSE Ret(TRUE)

\* tools/apply_config.py
is_policy_allowed_in_ring(policy, r) ==
    LET scope == OrEmptyDict(Get(policy, "scope")) IN
    IF scope.t # "dict" THEN Raised       \* scope.get: AttributeError
    ELSE LET supported == Get(scope, "supported_rings") IN
         IF supported.t = "null" THEN Ret(TRUE)
         ELSE IF supported.t = "list" THEN Ret(InList(Word(r), supported))
         ELSE Ret(FALSE)

\* policy_as_code/policies/apply_config.py
is_policy_allowed_in_ring_jamf(policy, r) ==
    LET scope == OrEmptyDict(Get(policy, "scope")) IN
    IF scope.t # "dict" THEN Raised       \* scope.get: AttributeError
    ELSE LET supported == Get(scope, "supported_rings") IN
         IF supported.t = "null" THEN Ret(TRUE)
         ELSE Ret(supported.t = "list" /\ InList(Word(r), supported))

IsEligible(e, policy, r) ==
    IF e = "tools" THEN is_policy_allowed_in_ring(policy, r)
    ELSE is_policy_allowed_in_ring_jamf(policy, r)

---------------------------------------------------------------------------
(* Reconciliation engine *)

ApplyResult(name, status, detail) ==
    [policy_name |-> name, status |-> status, detail |-> detail]

\* pol.get("name", "unknown")
NameOf(pol) == IF "name" \in DOMAIN pol.v THEN pol.v["name"] ELSE Word("unknown")

\* `x is True`
IsTrue(x) == x.t = "bool" /\ x.v

\* `x == "literal"` for a one-token string literal
IsWord(x, w) == x.t = "str" /\ x.v = <<w>>

\* The loop goes on to the next policy, or the function returns after the last.
NextPc == IF idx = Len(policies) THEN "done" ELSE "loop"

\* An iteration that records nothing for a skipped policy.
EmitUnlessSkipped(res, newBackend, newCalls, newFaults) ==
    /\ results' = IF res.status = "skipped" THEN results ELSE Append(results, res)
    /\ idx' = idx + 1
    /\ pc' = NextPc
    /\ backend' = newBackend
    /\ calls' = newCalls
    /\ faults' = newFaults

\* One iteration ends by appending a result (`results.append(...)`, `continue`).
Emit(res, newBackend, newCalls, newFaults) ==
    /\ results' = Append(results, res)
    /\ idx' = idx + 1
    /\ pc' = NextPc
    /\ backend' = newBackend
    /\ calls' = newCalls
    /\ faults' = newFaults

\* An exception leaves the loop: no result list is returned.
Abort(newCalls, newFaults) ==
    /\ pc' = "raised"
    /\ calls' = newCalls
    /\ faults' = newFaults
    /\ UNCHANGED <<results, idx, backend>>

Call(op, name) == [op |-> op, name |-> name]

\* Whether the backend call about to be made may fail (transport or protocol
\* error).  The demo Connector makes no call and cannot fail.
MayFail == conn # "demo" /\ faults < MaxFaults

\* A connector that reports every policy absent.
GetCurrentPolicyAbsent(name) == Null

\* Connector.get_current_policy: the demo connector answers None for every
\* name; a connector implemented as its comment says GETs the policy.
GetCurrentPolicy(name) ==
    IF conn = "demo" THEN Null
    ELSE IF backend[name].t = "null" THEN Null
    ELSE Dict([settings |-> backend[name]])

\* Connector.apply_policy: the demo connector reports "applied" and stores
\* nothing; a connector implemented as its comment says creates or updates.
ApplyPolicyBackend(pol) ==
    IF conn = "demo" THEN backend
    ELSE [backend EXCEPT ![NameOf(pol)] = Get(pol, "settings")]

\* pol.get("settings", {}): the default is used only for a missing key.
DesiredSettings(pol) ==
    IF "settings" \in DOMAIN pol.v THEN pol.v["settings"] ELSE EmptyDict

\* current.get("settings", {})
CurrentSettings(current) ==
    IF "settings" \in DOMAIN current.v THEN current.v["settings"] ELSE EmptyDict

\* apply_all: `md.get("emergency_use_only") is True and ring != "break-glass"`,
\* and the same test with the ring comparison turned round.
EmergencyUseOnlyInverted(md, r) == IsTrue(Get(md, "emergency_use_only")) /\ r = "break-glass"
EmergencyUseOnly(md, r) == IsTrue(Get(md, "emergency_use_only")) /\ r # "break-glass"

\* Jamf main: `md.get("emergency_use_only") is True`
EmergencyUseOnlyJamf(md) == IsTrue(Get(md, "emergency_use_only"))

\* tools/apply_config.py, apply_all: the body of `for pol in policies`.
ApplyAllBody ==
    LET pol == policies[idx]
        name == NameOf(pol)
        allowed == is_policy_allowed_in_ring(pol, ring)
        md == OrEmptyDict(Get(pol, "metadata"))
        fetched == Append(calls, Call("fetch", name))
        applying == Append(fetched, Call("apply", name))
    IN
    IF allowed.raised THEN Abort(calls, faults)
    ELSE IF ~allowed.value
    THEN Emit(ApplyResult(name, "skipped", "not allowed in ring"), backend, calls, faults)
    ELSE IF md.t # "dict" THEN Abort(calls, faults)      \* md.get: AttributeError
    ELSE IF EmergencyUseOnly(md, ring)
    THEN Emit(ApplyResult(name, "skipped", "emergency-use-only policy"), backend, calls, faults)
    ELSE
       \* current = conn.get_current_policy(name), outside any try
       \/ /\ MayFail
          /\ Abort(fetched, faults + 1)
       \/ LET current == GetCurrentPolicy(name) IN
          IF current.t # "null" /\ PyEq(CurrentSettings(current), DesiredSettings(pol))
          THEN Emit(ApplyResult(name, "no_change", "already compliant"), backend, fetched, faults)
          ELSE
             \* try: results.append(conn.apply_policy(pol)) except Exception
             \/ Emit(ApplyResult(name, "applied", "demo apply"),
                     ApplyPolicyBackend(pol), applying, faults)
             \/ /\ MayFail
                /\ Emit(ApplyResult(name, "failed", "connector error"),
                        backend, applying, faults + 1)

ApplyAllStep ==
    /\ engine = "tools"
    /\ pc = "loop"
    /\ ApplyAllBody
    /\ UNCHANGED <<engine, conn, ring, policies, run, first>>
    /\ UNCHANGED <<eligVars, lintVars, driftVars, mainVars, authVars>>

\* JamfClassicConnector.get_profile_by_name against a server that echoes the
\* stored payload: None on 404; otherwise scan() returns the first string
\* whose stripped text starts with "<?xml", or None when there is none.
GetProfileByName(name) ==
    LET held == backend[name] IN
    IF held.t = "null" THEN Null
    ELSE IF held.t = "str" /\ Strip(held.v) # <<>> /\ Head(Strip(held.v)) = "<?xml"
    THEN held
    ELSE Null

\* policy_as_code/policies/apply_config.py, main: the body of `for pol in policies`.
JamfMainBody ==
    LET pol == policies[idx]
        name == NameOf(pol)
        md == OrEmptyDict(Get(pol, "metadata"))
        allowed == is_policy_allowed_in_ring_jamf(pol, ring)
        settings == OrEmptyDict(Get(pol, "settings"))
        payload == Get(settings, "profile_plist_xml")
        fetched == Append(calls, Call("fetch", name))
        applying == Append(fetched, Call("apply", name))
    IN
    IF md.t # "dict" THEN Abort(calls, faults)            \* md.get: AttributeError
    ELSE IF EmergencyUseOnlyJamf(md)
    THEN Emit(ApplyResult(name, "skipped", "emergency-use-only policy (break-glass)"),
              backend, calls, faults)
    ELSE IF allowed.raised THEN Abort(calls, faults)
    ELSE IF ~allowed.value
    THEN Emit(ApplyResult(name, "skipped", "not allowed in ring"), backend, calls, faults)
    ELSE IF ~IsWord(Get(pol, "platform"), "macos")
    THEN Emit(ApplyResult(name, "skipped", "non-macOS policy"), backend, calls, faults)
    ELSE IF settings.t # "dict" THEN Abort(calls, faults)  \* settings.get: AttributeError
    ELSE IF ~IsWord(Get(settings, "type"), "jamf_configuration_profile")
    THEN Emit(ApplyResult(name, "skipped", "not marked as jamf_configuration_profile"),
              backend, calls, faults)
    ELSE IF Truthy(payload) /\ payload.t # "str"
    THEN Abort(calls, faults)                              \* .strip(): AttributeError
    ELSE LET desired_xml == IF Truthy(payload) THEN Strip(payload.v) ELSE <<>> IN
         IF desired_xml = <<>>
         THEN Emit(ApplyResult(name, "failed", "missing settings.profile_plist_xml"),
                   backend, calls, faults)
         ELSE
            \* try: ... except Exception as e: failed
            \/ /\ MayFail
               /\ Emit(ApplyResult(name, "failed", "connector error"),
                       backend, fetched, faults + 1)
            \/ LET current_xml == GetProfileByName(name) IN
               IF current_xml.t # "null" /\ Strip(current_xml.v) = desired_xml
               THEN Emit(ApplyResult(name, "no_change", "Jamf payload already matches"),
                         backend, fetched, faults)
               ELSE
                  \/ Emit(ApplyResult(name, "applied",
                              IF current_xml.t = "null" THEN "created profile"
                              ELSE "updated profile"),
                          [backend EXCEPT ![name] = Str(desired_xml)], applying, faults)
                  \/ /\ MayFail
                     /\ Emit(ApplyResult(name, "failed", "connector error"),
                             backend, applying, faults + 1)

JamfMainStep ==
    /\ engine = "jamf"
    /\ pc = "loop"
    /\ JamfMainBody
    /\ UNCHANGED <<engine, conn, ring, policies, run, first>>
    /\ UNCHANGED <<eligVars, lintVars, driftVars, mainVars, authVars>>

\* The same batch is reconciled again against the backend as the first run
\* left it: a fresh results list, the first run's kept for comparison.
Rerun ==
    /\ pc = "done"
    /\ run = 1
    /\ run' = 2
    /\ first' = results
    /\ results' = <<>>
    /\ calls' = <<>>
    /\ idx' = 1
    /\ pc' = "loop"
    /\ UNCHANGED <<engine, conn, ring, policies, backend, faults>>
    /\ UNCHANGED <<eligVars, lintVars, driftVars, mainVars, authVars>>

---------------------------------------------------------------------------
(* The apply command: main of the two apply_config.py *)

\* str.lower() on one token
Lower(tok) ==
    CASE tok = "QA" -> "qa"
      [] tok = "Global" -> "global"
      [] OTHER -> tok

\* args.ring.strip().lower(), as a ring name ("" when nothing is left)
NormalizeRing(raw) ==
    LET st == Strip(raw) IN IF Len(st) = 1 THEN Lower(st[1]) ELSE ""

\* sum(1 for r in results if r.status == st)
CountStatus(rs, st) == Cardinality({i \in 1..Len(rs) : rs[i].status = st})

\* write_audit_log with the failed results left out of the summary
write_audit_log_no_failed(r, rs) ==
    [written |-> TRUE, ring |-> r, results |-> rs,
     summary |-> [applied |-> CountStatus(rs, "applied"),
                  no_change |-> CountStatus(rs, "no_change"),
                  skipped |-> CountStatus(rs, "skipped"),
                  failed |-> 0]]

\* write_audit_log / write_audit: ring, the results in order, and the summary
\* count of each status
write_audit_log(r, rs) ==
    [written |-> TRUE, ring |-> r, results |-> rs,
     summary |-> [applied |-> CountStatus(rs, "applied"),
                  no_change |-> CountStatus(rs, "no_change"),
                  skipped |-> CountStatus(rs, "skipped"),
                  failed |-> CountStatus(rs, "failed")]]

\* The process ends before any policy is loaded.
ExitEarly(code) ==
    /\ exit' = <<code>>
    /\ pc' = "exited"
    /\ UNCHANGED <<ring, policies, faults>>

\* load_policies, and the loop is entered (or skipped for an empty directory)
LoadPolicies(r) ==
    /\ ring' = r
    /\ policies' = args.dir
    /\ pc' = IF args.dir = <<>> THEN "done" ELSE "loop"
    /\ UNCHANGED <<exit, faults>>

\* tools/apply_config.py, main up to the call of apply_all: every usage or
\* path error is `raise SystemExit(<message>)`, which ends the process with
\* exit code 1
MainStartTools ==
    /\ engine = "tools"
    /\ pc = "start"
    /\ LET r == NormalizeRing(args.ring) IN
       IF r \notin ALLOWED_RINGS THEN ExitEarly(1)
       ELSE IF args.policies = "none" /\ args.artifact = "none" THEN ExitEarly(1)
       ELSE IF args.artifact # "none"
       THEN IF args.artifact = "missing" THEN ExitEarly(1) ELSE LoadPolicies(r)
       ELSE IF args.policies = "missing" THEN ExitEarly(1)
       ELSE LoadPolicies(r)
    /\ UNCHANGED <<engine, conn, backend, idx, results, run, first, calls, args, audit>>
    /\ UNCHANGED <<eligVars, lintVars, driftVars, authVars>>

\* policy_as_code/policies/apply_config.py, main up to the loop: usage and
\* environment errors return 2; JamfAuth.token() may raise
MainStartJamf ==
    /\ engine = "jamf"
    /\ pc = "start"
    /\ LET r == NormalizeRing(args.ring) IN
       IF r \notin ALLOWED_RINGS THEN ExitEarly(2)
       ELSE IF args.policies # "dir" THEN ExitEarly(2)
       ELSE IF ~args.env THEN ExitEarly(2)
       ELSE \/ LoadPolicies(r)
            \/ /\ MayFail
               /\ ring' = r /\ policies' = args.dir
               /\ pc' = "raised" /\ faults' = faults + 1
               /\ UNCHANGED exit
    /\ UNCHANGED <<engine, conn, backend, idx, results, run, first, calls, args, audit>>
    /\ UNCHANGED <<eligVars, lintVars, driftVars, authVars>>

\* main after the loop: the audit record is written, and the exit code is 1
\* when a result is failed, else 0
MainFinish ==
    /\ pc = "done"
    /\ exit = <<>>
    /\ audit' = write_audit_log(ring, results)
    /\ exit' = IF CountStatus(results, "failed") > 0 THEN <<1>> ELSE <<0>>
    /\ pc' = "exited"
    /\ UNCHANGED <<engine, conn, ring, policies, backend, idx, results, run, first, calls, faults>>
    /\ UNCHANGED <<args, eligVars, lintVars, driftVars, authVars>>

\* An exception left main: traceback, exit code 1, no audit record.
MainCrash ==
    /\ pc = "raised"
    /\ exit = <<>>
    /\ exit' = <<1>>
    /\ UNCHANGED <<reconcileVars, args, audit, eligVars, lintVars, driftVars, authVars>>

---------------------------------------------------------------------------
(* JamfAuth.token(): a cached token, acquired with a POST when there is none *)
(* auth.cached is self._token (0 for None), auth.tok[t] the local `tok` of   *)
(* caller t, auth.tpc[t] where caller t is in token()                        *)

Callers == 1..MaxCallers

\* `if self._token: return self._token`, else the caller goes on to the POST
TokenEnter(t) ==
    /\ auth.tpc[t] = "idle"
    /\ auth.started < MaxTokenCalls
    /\ IF auth.cached # 0
       THEN auth' = [auth EXCEPT !.started = @ + 1,
                                 !.returned = @ \cup {auth.cached},
                                 !.cachedHits = @ + 1]
       ELSE auth' = [auth EXCEPT !.started = @ + 1, !.tpc[t] = "posting"]

\* requests.post(...); raise_for_status(); tok = data.get("token"): the
\* endpoint issues a fresh token, or the call raises (HTTP error, timeout,
\* no token in the response)
TokenPost(t) ==
    /\ auth.tpc[t] = "posting"
    /\ \/ auth' = [auth EXCEPT !.posts = @ + 1, !.granted = @ + 1,
                               !.tok[t] = auth.granted + 1, !.tpc[t] = "storing"]
       \/ auth' = [auth EXCEPT !.posts = @ + 1, !.tpc[t] = "idle"]

\* self._token = tok; return tok
TokenStore(t) ==
    /\ auth.tpc[t] = "storing"
    /\ auth' = [auth EXCEPT !.cached = auth.tok[t],
                            !.returned = @ \cup {auth.tok[t]},
                            !.tpc[t] = "idle"]

---------------------------------------------------------------------------
(* Policy validator *)

Digits == {"0", "1", "2", "3", "4", "5", "6", "7", "8", "9"}

RECURSIVE DigitRun(_)
DigitRun(s) == IF s # <<>> /\ Head(s) \in Digits THEN 1 + DigitRun(Tail(s)) ELSE 0

\* Length of the prefix matched by (0|[1-9]\d*); 0 when there is none.
NumPrefix(s) ==
    IF s = <<>> THEN 0
    ELSE IF Head(s) = "0" THEN 1
    ELSE IF Head(s) \in Digits THEN DigitRun(s)
    ELSE 0

Drop(s, n) == SubSeq(s, n + 1, Len(s))

\* (?:[-+].+)? up to the end of the string: `.` matches no newline
SuffixCore(r) ==
    \/ r = <<>>
    \/ /\ Len(r) >= 2
       /\ r[1] \in {"-", "+"}
       /\ \A i \in 2..Len(r) : r[i] # "NL"

\* ... followed by `$`, which also matches just before a final newline
SuffixOk(r) ==
    \/ SuffixCore(r)
    \/ r # <<>> /\ r[Len(r)] = "NL" /\ SuffixCore(SubSeq(r, 1, Len(r) - 1))

\* SEMVER_RE.match(s) is not None, s a sequence of characters
SemverMatch(s) ==
    LET n1 == NumPrefix(s)
        r1 == Drop(s, n1)
        ok1 == n1 > 0 /\ r1 # <<>> /\ Head(r1) = "."
        s2 == IF ok1 THEN Tail(r1) ELSE <<>>
        n2 == NumPrefix(s2)
        r2 == Drop(s2, n2)
        ok2 == ok1 /\ n2 > 0 /\ r2 # <<>> /\ Head(r2) = "."
        s3 == IF ok2 THEN Tail(r2) ELSE <<>>
        n3 == NumPrefix(s3)
    IN ok2 /\ n3 > 0 /\ SuffixOk(Drop(s3, n3))

REQUIRED_TOP_LEVEL == {"name", "platform", "version", "metadata", "settings"}
REQUIRED_METADATA ==
    {"owner", "approver_groups", "change_ticket_required", "risk_level", "rollout_strategy"}
ALLOWED_PLATFORMS == {"windows", "macos", "linux", "ios", "android", "cross-platform"}
ALLOWED_RISK == {"low", "medium", "high", "critical"}
ALLOWED_ROLLOUT == {"ringed", "manual-only"}
BREAK_GLASS_NAMES == {"break-glass-exception", "break_glass_exception"}

MaxDurationMinutes == 240

\* `x in S` for a set S of string literals; x must be hashable.
InWords(x, S) == x.t = "str" /\ \E w \in S : x.v = <<w>>
Hashable(x) == x.t \notin {"list", "dict"}

\* isinstance(x, int): bool is a subclass of int.
IsInstanceInt(x) == x.t \in {"int", "bool"}
IntValue(x) == IF x.t = "bool" THEN (IF x.v THEN 1 ELSE 0) ELSE x.v

\* _expect(cond, path, msg, errors)
Expect(cond, msg) == IF cond THEN <<>> ELSE <<msg>>

LintOk(msgs) == [raised |-> FALSE, msgs |-> msgs]
LintRaised == [raised |-> TRUE, msgs |-> <<>>]

\* name / platform / version / metadata / settings checks (both linters)
TypeErrors(p) ==
    LET name == Get(p, "name")
        version == Get(p, "version")
    IN Expect(name.t = "str" /\ Strip(name.v) # <<>>, "name must be a non-empty string")
       \o Expect(InWords(Get(p, "platform"), ALLOWED_PLATFORMS), "platform must be one of")
       \o Expect(version.t = "str" /\ SemverMatch(version.v), "version must be semver")
       \o Expect(OrEmptyDict(Get(p, "metadata")).t = "dict", "metadata must be an object")
       \o Expect(OrEmptyDict(Get(p, "settings")).t = "dict", "settings must be an object")

\* required metadata keys, risk_level and rollout_strategy (both linters)
MetadataErrors(metadata) ==
    Expect(REQUIRED_METADATA \subseteq DOMAIN metadata.v, "Missing metadata fields")
    \o (IF "risk_level" \in DOMAIN metadata.v
        THEN Expect(InWords(metadata.v["risk_level"], ALLOWED_RISK),
                    "metadata.risk_level must be one of")
        ELSE <<>>)
    \o (IF "rollout_strategy" \in DOMAIN metadata.v
        THEN Expect(InWords(metadata.v["rollout_strategy"], ALLOWED_ROLLOUT),
                    "metadata.rollout_strategy must be one of")
        ELSE <<>>)

\* tools linter only
ApproverErrors(metadata) ==
    IF "approver_groups" \in DOMAIN metadata.v
    THEN Expect(metadata.v["approver_groups"].t = "list" /\ Truthy(metadata.v["approver_groups"]),
                "metadata.approver_groups must be a non-empty list")
    ELSE <<>>

\* scope.supported_rings, for a scope that is an object (both linters)
RingErrors(scope) ==
    LET supported_rings == Get(scope, "supported_rings") IN
    IF supported_rings.t = "null" THEN <<>>
    ELSE Expect(supported_rings.t = "list" /\ Truthy(supported_rings),
                "scope.supported_rings must be a non-empty list")
         \o (IF supported_rings.t = "list"
             THEN Expect(\A i \in 1..Len(supported_rings.v) :
                             InWords(supported_rings.v[i], ALLOWED_RINGS),
                         "scope.supported_rings contains invalid ring(s)")
             ELSE <<>>)

\* `r not in ALLOWED_RINGS` raises TypeError for an unhashable element
RingsRaise(scope) ==
    LET supported_rings == Get(scope, "supported_rings") IN
    /\ supported_rings.t = "list"
    /\ \E i \in 1..Len(supported_rings.v) : ~Hashable(supported_rings.v[i])

\* tools linter: telemetry_expectations values between 0 and 1
TelemetryErrors(telemetry) ==
    IF ~Truthy(telemetry) THEN <<>>
    ELSE LET bad == {k \in DOMAIN telemetry.v :
                        /\ IsNumber(telemetry.v[k])
                        /\ ~(0 <= Hundredths(telemetry.v[k]) /\ Hundredths(telemetry.v[k]) <= 100)}
         IN [i \in 1..Cardinality(bad) |-> "telemetry_expectations value must be between 0 and 1"]

DurationOk(tc) ==
    LET mdur == Get(tc, "max_duration_minutes") IN
    IsInstanceInt(mdur) /\ 1 <= IntValue(mdur) /\ IntValue(mdur) <= MaxDurationMinutes

\* tools linter, break-glass guardrails, with the max_duration_minutes check
\* left out
BreakGlassErrorsNoTtl(p, metadata) ==
    LET tc == OrEmptyDict(Get(p, "time_constraints")) IN
    Expect(IsWord(Get(metadata, "rollout_strategy"), "manual-only"),
           "break-glass must have rollout_strategy=manual-only")
    \o Expect(IsWord(Get(metadata, "risk_level"), "critical"),
              "break-glass must have risk_level=critical")
    \o Expect(IsTrue(Get(metadata, "emergency_use_only")),
              "break-glass must set metadata.emergency_use_only=true")
    \o Expect(tc.t = "dict" /\ IsTrue(Get(tc, "auto_expire")),
              "break-glass must enable time_constraints.auto_expire=true")

\* tools linter, the block under `name in BREAK_GLASS_NAMES`
BreakGlassErrors(p, metadata) ==
    LET tc == OrEmptyDict(Get(p, "time_constraints")) IN
    Expect(IsWord(Get(metadata, "rollout_strategy"), "manual-only"),
           "break-glass must have rollout_strategy=manual-only")
    \o Expect(IsWord(Get(metadata, "risk_level"), "critical"),
              "break-glass must have risk_level=critical")
    \o Expect(IsTrue(Get(metadata, "emergency_use_only")),
              "break-glass must set metadata.emergency_use_only=true")
    \o Expect(tc.t = "dict" /\ IsTrue(Get(tc, "auto_expire")),
              "break-glass must enable time_constraints.auto_expire=true")
    \o Expect(DurationOk(tc), "break-glass max_duration_minutes must be an int between 1 and 240")

\* Jamf-aware linter, the block under `name in BREAK_GLASS_NAMES`
BreakGlassErrorsJamf(p, metadata) ==
    LET tc == OrEmptyDict(Get(p, "time_constraints")) IN
    Expect(IsWord(Get(metadata, "rollout_strategy"), "manual-only"),
           "break-glass must have rollout_strategy=manual-only")
    \o Expect(IsWord(Get(metadata, "risk_level"), "critical"),
              "break-glass must have risk_level=critical")
    \o Expect(IsTrue(Get(metadata, "emergency_use_only")),
              "break-glass must set metadata.emergency_use_only=true")
    \o Expect(tc.t = "dict", "break-glass must include time_constraints object")
    \o (IF tc.t = "dict"
        THEN Expect(IsTrue(Get(tc, "auto_expire")),
                    "break-glass must enable time_constraints.auto_expire=true")
             \o Expect(DurationOk(tc), "break-glass max_duration_minutes must be int 1..240")
        ELSE <<>>)

\* `isinstance(name, str) and name in BREAK_GLASS_NAMES`
IsBreakGlassName(name) == InWords(name, BREAK_GLASS_NAMES)

\* A linter without the Jamf payload check.
JamfPayloadErrorsNone(p, settings) == <<>>

\* Jamf-aware linter: a macOS jamf_configuration_profile needs plist XML
JamfPayloadErrors(p, settings) ==
    IF IsWord(Get(p, "platform"), "macos")
       /\ IsWord(Get(settings, "type"), "jamf_configuration_profile")
    THEN LET xml_payload == Get(settings, "profile_plist_xml") IN
         Expect(/\ xml_payload.t = "str"
                /\ Strip(xml_payload.v) # <<>>
                /\ Head(Strip(xml_payload.v)) = "<?xml",
                "macOS Jamf profile must include settings.profile_plist_xml containing plist XML")
    ELSE <<>>

\* examples/tools/policy_lint.py, lint_policy returning at the first failed
\* group of checks
lint_policy_stop_early(policy) ==
    LET metadata == OrEmptyDict(Get(policy, "metadata")) IN
    IF policy.t # "dict" THEN LintRaised
    ELSE IF ~(REQUIRED_TOP_LEVEL \subseteq DOMAIN policy.v)
    THEN LintOk(<<"Missing top-level fields">>)
    ELSE IF TypeErrors(policy) # <<>> THEN LintOk(TypeErrors(policy))
    ELSE IF metadata.t # "dict" THEN LintRaised
    ELSE LintOk(MetadataErrors(metadata))

\* examples/tools/policy_lint.py, lint_policy
lint_policy(policy) ==
    LET name == Get(policy, "name")
        platform == Get(policy, "platform")
        metadata == OrEmptyDict(Get(policy, "metadata"))
        scope == OrEmptyDict(Get(policy, "scope"))
        telemetry == OrEmptyDict(Get(policy, "telemetry_expectations"))
        tc == OrEmptyDict(Get(policy, "time_constraints"))
    IN
    IF policy.t # "dict" THEN LintRaised                  \* policy.keys()
    ELSE IF ~(REQUIRED_TOP_LEVEL \subseteq DOMAIN policy.v)
    THEN LintOk(<<"Missing top-level fields">>)           \* can't continue reliably
    ELSE IF \/ ~Hashable(platform)                        \* platform in ALLOWED_PLATFORMS
            \/ metadata.t # "dict"                        \* metadata.keys()
            \/ \E k \in {"risk_level", "rollout_strategy"} :
                  k \in DOMAIN metadata.v /\ ~Hashable(metadata.v[k])
            \/ scope.t # "dict"                           \* scope.get
            \/ RingsRaise(scope)
            \/ telemetry.t # "dict"                       \* telemetry.items()
            \/ IsBreakGlassName(name) /\ tc.t # "dict"    \* tc.get
    THEN LintRaised
    ELSE LintOk(TypeErrors(policy)
                \o MetadataErrors(metadata)
                \o ApproverErrors(metadata)
                \o (IF Truthy(scope) THEN RingErrors(scope) ELSE <<>>)
                \o TelemetryErrors(telemetry)
                \o (IF IsBreakGlassName(name) THEN BreakGlassErrors(policy, metadata) ELSE <<>>))

\* examples/policy_as_code/policies/policy_lint.py, lint_policy
lint_policy_jamf(p) ==
    LET name == Get(p, "name")
        platform == Get(p, "platform")
        metadata == OrEmptyDict(Get(p, "metadata"))
        settings == OrEmptyDict(Get(p, "settings"))
        scope == OrEmptyDict(Get(p, "scope"))
    IN
    IF p.t # "dict" THEN LintRaised                       \* p.keys()
    ELSE IF ~(REQUIRED_TOP_LEVEL \subseteq DOMAIN p.v)
    THEN LintOk(<<"Missing top-level fields">>)
    ELSE IF \/ ~Hashable(platform)                        \* platform in ALLOWED_PLATFORMS
            \/ metadata.t # "dict"                        \* metadata.keys()
            \/ \E k \in {"risk_level", "rollout_strategy"} :
                  k \in DOMAIN metadata.v /\ ~Hashable(metadata.v[k])
            \/ scope.t # "dict"                           \* scope.get
            \/ RingsRaise(scope)
            \/ IsWord(platform, "macos") /\ settings.t # "dict"   \* settings.get
    THEN LintRaised
    ELSE LintOk(TypeErrors(p)
                \o MetadataErrors(metadata)
                \o RingErrors(scope)
                \o JamfPayloadErrors(p, settings)
                \o (IF IsBreakGlassName(name) THEN BreakGlassErrorsJamf(p, metadata) ELSE <<>>))

LintPolicy(e, p) == IF e = "tools" THEN lint_policy(p) ELSE lint_policy_jamf(p)

---------------------------------------------------------------------------
(* Drift detection *)

\* sorted(settings.keys()) for the keys of the model, "a" < "b" < "c"
KeyOrder == <<"a", "b", "c">>
SortedKeys(S) == SelectSeq(KeyOrder, LAMBDA k : k \in S)

\* sorted(lst) for a list of ints
RECURSIVE SortNums(_)
SortNums(s) ==
    IF s = <<>> THEN <<>>
    ELSE LET m == CHOOSE i \in 1..Len(s) : \A j \in 1..Len(s) : s[i].v <= s[j].v IN
         <<s[m]>> \o SortNums(SubSeq(s, 1, m - 1) \o SubSeq(s, m + 1, Len(s)))

\* normalize_settings that sorts lists of numbers as well as dict keys
RECURSIVE normalize_settings_sorting_lists(_)
normalize_settings_sorting_lists(settings) ==
    IF settings.t = "obj"
    THEN LET ks == SortedKeys(Keys(settings)) IN
         Obj([i \in 1..Len(ks) |->
                 <<ks[i], normalize_settings_sorting_lists(Lookup(settings, ks[i]))>>])
    ELSE IF settings.t = "list"
    THEN IF \A i \in 1..Len(settings.v) : settings.v[i].t = "int"
         THEN List(SortNums(settings.v))
         ELSE List([i \in 1..Len(settings.v) |->
                       normalize_settings_sorting_lists(settings.v[i])])
    ELSE settings

\* examples/tools/drift_check.py, normalize_settings: dict keys sorted at every
\* depth, lists left in their order
RECURSIVE normalize_settings(_)
normalize_settings(settings) ==
    IF settings.t = "obj"
    THEN LET ks == SortedKeys(Keys(settings)) IN
         Obj([i \in 1..Len(ks) |-> <<ks[i], normalize_settings(Lookup(settings, ks[i]))>>])
    ELSE IF settings.t = "list"
    THEN List([i \in 1..Len(settings.v) |-> normalize_settings(settings.v[i])])
    ELSE settings

DriftItem(status, d, a) == [status |-> status, desired |-> d, actual |-> a]

\* d.get("settings", {})
SettingsOrEmpty(d) == IF "settings" \in DOMAIN d.v THEN d.v["settings"] ELSE Obj(<<>>)

\* actual.get(name) is None: the name is missing, or its value is null
MissingInActual(act, name) == name \notin DOMAIN act \/ act[name].t = "null"

\* examples/tools/drift_check.py, compare without its second loop (names
\* only in actual are not reported)
compare_without_extras(des, act) ==
    LET drifted == {n \in DOMAIN des :
                       /\ ~MissingInActual(act, n)
                       /\ ~PyEq(normalize_settings(SettingsOrEmpty(des[n])),
                                normalize_settings(SettingsOrEmpty(act[n])))}
        missing == {n \in DOMAIN des : MissingInActual(act, n)}
        items == [n \in drifted \cup missing |->
                     IF n \in missing THEN DriftItem("missing_in_actual", Null, Null)
                     ELSE DriftItem("settings_drift",
                                    normalize_settings(SettingsOrEmpty(des[n])),
                                    normalize_settings(SettingsOrEmpty(act[n])))]
    IN [items |-> items, rc |-> IF DOMAIN items = {} THEN 0 ELSE 1]

\* examples/tools/drift_check.py, compare: the drift report by name, and rc
compare(des, act) ==
    LET drifted == {n \in DOMAIN des :
                       /\ ~MissingInActual(act, n)
                       /\ ~PyEq(normalize_settings(SettingsOrEmpty(des[n])),
                                normalize_settings(SettingsOrEmpty(act[n])))}
        missing == {n \in DOMAIN des : MissingInActual(act, n)}
        extra == DOMAIN act \ DOMAIN des
        items == [n \in drifted \cup missing \cup extra |->
                     IF n \in missing THEN DriftItem("missing_in_actual", Null, Null)
                     ELSE IF n \in extra THEN DriftItem("extra_in_actual", Null, Null)
                     ELSE DriftItem("settings_drift",
                                    normalize_settings(SettingsOrEmpty(des[n])),
                                    normalize_settings(SettingsOrEmpty(act[n])))]
    IN [items |-> items, rc |-> IF DOMAIN items = {} THEN 0 ELSE 1]

\* src/tools/drift_check.py, compare: settings compared as loaded
compare_skeleton(des, act) ==
    LET drifted == {n \in DOMAIN des :
                       /\ ~MissingInActual(act, n)
                       /\ ~PyEq(Get(des[n], "settings"), Get(act[n], "settings"))}
        missing == {n \in DOMAIN des : MissingInActual(act, n)}
        extra == DOMAIN act \ DOMAIN des
        items == [n \in drifted \cup missing \cup extra |->
                     IF n \in missing THEN DriftItem("missing_in_actual", Null, Null)
                     ELSE IF n \in extra THEN DriftItem("extra_in_actual", Null, Null)
                     ELSE DriftItem("settings_drift", Get(des[n], "settings"),
                                    Get(act[n], "settings"))]
    IN [items |-> items, rc |-> IF DOMAIN items = {} THEN 0 ELSE 1]

CompareBy(e, des, act) == IF e = "tools" THEN compare(des, act) ELSE compare_skeleton(des, act)

---------------------------------------------------------------------------
(* Values of the other components' variables while one component runs *)

NoCall == [called |-> FALSE, raised |-> FALSE, value |-> FALSE]
NoLint == [called |-> FALSE, raised |-> FALSE, msgs |-> <<>>]
NoDrift == [called |-> FALSE, items |-> <<>>, rc |-> 0]

ReconcileIdle ==
    /\ conn = "demo" /\ policies = <<>> /\ backend = <<>>
    /\ pc = "done" /\ idx = 1 /\ results = <<>> /\ run = 1 /\ first = <<>>
    /\ calls = <<>> /\ faults = 0
EligIdle == eligible = NoCall
LintIdle == errors = NoLint
DriftIdle == desired = <<>> /\ actual = <<>> /\ drift = NoDrift

NoArgs == [ring |-> <<>>, policies |-> "none", artifact |-> "none", env |-> FALSE, dir |-> <<>>]
NoAudit == [written |-> FALSE, ring |-> "", results |-> <<>>, summary |-> <<>>]
NoAuth ==
    [cached |-> 0, posts |-> 0, granted |-> 0, started |-> 0, tpc |-> <<>>, tok |-> <<>>,
     returned |-> {}, cachedHits |-> 0]
MainIdle == args = NoArgs /\ exit = <<>> /\ audit = NoAudit
AuthIdle == auth = NoAuth

---------------------------------------------------------------------------
(* Specification of reconciliation: a batch, a ring, a backend, two runs *)

XmlA == <<"<?xml", "a">>             \* a plist with its XML declaration
XmlB == <<"<?xml", "b">>             \* another one
XmlAPadded == <<"<?xml", "a", "_">>  \* XmlA followed by a newline
Blank == <<"_">>                     \* whitespace only
NoDecl == <<"plist">>                \* text without an XML declaration

JamfSettings(x) ==
    Dict([type |-> Word("jamf_configuration_profile"), profile_plist_xml |-> Str(x)])
OtherSettings == Dict([type |-> Word("registry"), a |-> Num(1)])

NormalMetadata == Dict([owner |-> Word("it")])
EmergencyMetadata == Dict([owner |-> Word("it"), emergency_use_only |-> Bool(TRUE)])

\* A policy document without a scope key, and one with it.
Policy(n, md, platform, settings) ==
    Dict([name |-> Word(n), metadata |-> md, platform |-> Word(platform),
          settings |-> settings])
Scoped(pol, scope) == Dict(pol.v @@ [scope |-> scope])

\* The documents a batch is drawn from: every scope shape with and without
\* the emergency flag, a malformed metadata, and every payload shape.
PolicyDocs(n) ==
    LET base(md) == Policy(n, md, "macos", JamfSettings(XmlA)) IN
    UNION {{base(md),
            Scoped(base(md), Dict([supported_rings |-> List(<<Word("qa")>>)])),
            Scoped(base(md), Dict([supported_rings |-> AllRingsList])),
            Scoped(base(md), Word("qa"))} : md \in {NormalMetadata, EmergencyMetadata}}
      \cup {base(Word("x"))}
      \cup {Policy(n, NormalMetadata, "macos", st) :
                st \in {JamfSettings(XmlB), JamfSettings(XmlAPadded), JamfSettings(Blank),
                        JamfSettings(NoDecl), OtherSettings}}
      \cup {Policy(n, NormalMetadata, "windows", JamfSettings(XmlA))}

PolicyName(i) == IF i = 1 THEN "p1" ELSE IF i = 2 THEN "p2" ELSE IF i = 3 THEN "p3" ELSE "p4"

\* Batches of 1..MaxBatch policies, the i-th named PolicyName(i): names are
\* unique within a batch.
Batches ==
    UNION {{b \in [1..k -> UNION {PolicyDocs(PolicyName(i)) : i \in 1..k}] :
                \A i \in 1..k : b[i] \in PolicyDocs(PolicyName(i))} : k \in 1..MaxBatch}

\* What the backend may hold for a name before the first run.
InitiallyHeld(c) ==
    IF c = "demo" THEN {Null}
    ELSE IF c = "api" THEN {Null, JamfSettings(XmlA)}
    ELSE {Null, Str(XmlA), Str(NoDecl)}

Init ==
    /\ \E ec \in {<<"tools", "demo">>, <<"tools", "api">>, <<"jamf", "jamf">>} :
          engine = ec[1] /\ conn = ec[2]
    /\ ring \in ALLOWED_RINGS
    /\ policies \in Batches
    /\ \E held \in InitiallyHeld(conn) :
          backend = [n \in {NameOf(policies[i]) : i \in 1..Len(policies)} |-> held]
    /\ pc = "loop" /\ idx = 1 /\ results = <<>> /\ run = 1 /\ first = <<>>
    /\ calls = <<>> /\ faults = 0
    /\ doc = EmptyDict
    /\ EligIdle /\ LintIdle /\ DriftIdle /\ MainIdle /\ AuthIdle

Next == ApplyAllStep \/ JamfMainStep \/ Rerun

Spec == Init /\ [][Next]_vars

---------------------------------------------------------------------------
(* Specification of the eligibility resolver: every scope shape, every ring *)

RingWords == {Word(r) : r \in ALLOWED_RINGS \cup {"beta"}}

SeqsUpTo(S, n) == UNION {[1..k -> S] : k \in 0..n}

SupportedValues ==
    {Null, AllRingsList, Word("qa"), Num(1), Bool(TRUE), EmptyDict}
        \cup {List(s) : s \in SeqsUpTo(RingWords, MaxRingList)}

\* scope values: falsy ones, objects with and without supported_rings, and
\* truthy values that are not objects
ScopeValues ==
    {Null, EmptyDict, List(<<>>), Str(<<>>), Num(0), Bool(FALSE)}
        \cup {Dict([supported_rings |-> s]) : s \in SupportedValues}
        \cup {Dict([note |-> Word("x")])}
        \cup {List(<<Word("qa")>>), Word("qa"), Num(1), Bool(TRUE)}

EligDocs ==
    {Dict([name |-> Word("wifi-baseline")])}
        \cup {Dict([name |-> Word("wifi-baseline"), scope |-> s]) : s \in ScopeValues}

InitElig ==
    /\ engine \in {"tools", "jamf"}
    /\ ring \in ALLOWED_RINGS
    /\ doc \in EligDocs
    /\ eligible = NoCall
    /\ ReconcileIdle /\ LintIdle /\ DriftIdle /\ MainIdle /\ AuthIdle

\* is_eligible(policy, ring) is called.
Resolve ==
    /\ ~eligible.called
    /\ LET r == IsEligible(engine, doc, ring) IN
       eligible' = [called |-> TRUE, raised |-> r.raised, value |-> r.value]
    /\ UNCHANGED <<reconcileVars, doc, lintVars, driftVars, mainVars, authVars>>

NextElig == Resolve

SpecElig == InitElig /\ [][NextElig]_vars

---------------------------------------------------------------------------
(* Specification of the validator: sample policies with up to MaxEdits     *)
(* fields changed, linted by either linter                                 *)

V123 == <<"1", ".", "2", ".", "3">>
V12 == <<"1", ".", "2">>
VLeadingZero == <<"0", "1", ".", "2", ".", "3">>
VPrerelease == <<"1", "0", ".", "0", ".", "0", "-", "r", "c">>
VBareDash == <<"1", ".", "2", ".", "3", "-">>
VNewline == <<"1", ".", "2", ".", "3", "NL">>

\* A valid ordinary policy and a valid break-glass policy.
SampleNormal ==
    Dict([name |-> Word("wifi-baseline"),
          platform |-> Word("macos"),
          version |-> Str(V123),
          metadata |-> Dict([owner |-> Word("it"),
                             approver_groups |-> List(<<Word("secops")>>),
                             change_ticket_required |-> Bool(TRUE),
                             risk_level |-> Word("low"),
                             rollout_strategy |-> Word("ringed")]),
          settings |-> JamfSettings(XmlA)])

SampleBreakGlass ==
    Dict([name |-> Word("break-glass-exception"),
          platform |-> Word("macos"),
          version |-> Str(V123),
          metadata |-> Dict([owner |-> Word("it"),
                             approver_groups |-> List(<<Word("secops")>>),
                             change_ticket_required |-> Bool(TRUE),
                             risk_level |-> Word("critical"),
                             rollout_strategy |-> Word("manual-only"),
                             emergency_use_only |-> Bool(TRUE)]),
          settings |-> JamfSettings(XmlA),
          time_constraints |-> Dict([auto_expire |-> Bool(TRUE),
                                     max_duration_minutes |-> Num(60)])])

Remove == [t |-> "remove", v |-> 0]

WithKey(d, k, val) == Dict([x \in DOMAIN d.v \cup {k} |-> IF x = k THEN val ELSE d.v[x]])
WithoutKey(d, k) == Dict([x \in DOMAIN d.v \ {k} |-> d.v[x]])
SetKey(d, k, val) == IF val = Remove THEN WithoutKey(d, k) ELSE WithKey(d, k, val)

\* An edit sets or removes a top-level key, or a key of a top-level object.
ApplyEdit(d, e) ==
    IF Len(e.path) = 1 THEN SetKey(d, e.path[1], e.val)
    ELSE IF e.path[1] \in DOMAIN d.v /\ d.v[e.path[1]].t = "dict"
    THEN WithKey(d, e.path[1], SetKey(d.v[e.path[1]], e.path[2], e.val))
    ELSE d

EditsOf(path, vals) == {[path |-> path, val |-> x] : x \in vals}

Edits ==
    EditsOf(<<"name">>, {Remove, Str(<<>>), Str(<<"_">>), Num(7), Word("break-glass-exception"),
                         Word("break_glass_exception"), Word("wifi-baseline")})
    \cup EditsOf(<<"platform">>, {Remove, Word("windows"), Word("amiga"), List(<<Word("macos")>>)})
    \cup EditsOf(<<"version">>, {Remove, Num(1), Str(V12), Str(VLeadingZero), Str(VPrerelease),
                                 Str(VBareDash), Str(VNewline)})
    \cup EditsOf(<<"metadata">>, {Remove, Null, Word("x"), List(<<Word("x")>>)})
    \cup EditsOf(<<"settings">>, {Remove, Null, Word("x"), OtherSettings, JamfSettings(Blank),
                                  JamfSettings(NoDecl), JamfSettings(XmlAPadded),
                                  Dict([type |-> Word("jamf_configuration_profile")]),
                                  Dict([type |-> Word("jamf_configuration_profile"),
                                        profile_plist_xml |-> Num(1)])})
    \cup EditsOf(<<"scope">>, {Null, Word("qa"), List(<<Word("qa")>>),
                               Dict([supported_rings |-> Null]),
                               Dict([supported_rings |-> List(<<>>)]),
                               Dict([supported_rings |-> Word("qa")]),
                               Dict([supported_rings |-> List(<<Word("qa"), Word("beta")>>)]),
                               Dict([supported_rings |-> List(<<List(<<>>)>>)]),
                               Dict([supported_rings |-> AllRingsList])})
    \cup EditsOf(<<"telemetry_expectations">>, {Word("x"), Dict([crash_free |-> Float(95)]),
                                                Dict([crash_free |-> Num(2)]),
                                                Dict([crash_free |-> Word("high")])})
    \cup EditsOf(<<"time_constraints">>, {Remove, Null, Word("x"), EmptyDict})
    \cup EditsOf(<<"metadata", "owner">>, {Remove})
    \cup EditsOf(<<"metadata", "change_ticket_required">>, {Remove})
    \cup EditsOf(<<"metadata", "approver_groups">>, {Remove, List(<<>>), Word("secops")})
    \cup EditsOf(<<"metadata", "risk_level">>, {Remove, Word("low"), Word("critical"),
                                                Word("bogus"), List(<<Word("low")>>)})
    \cup EditsOf(<<"metadata", "rollout_strategy">>, {Remove, Word("ringed"), Word("manual-only"),
                                                      Word("bogus")})
    \cup EditsOf(<<"metadata", "emergency_use_only">>, {Remove, Bool(TRUE), Bool(FALSE), Num(1),
                                                        Word("true")})
    \cup EditsOf(<<"time_constraints", "auto_expire">>, {Remove, Bool(FALSE), Num(1)})
    \cup EditsOf(<<"time_constraints", "max_duration_minutes">>,
                 {Remove, Num(0), Num(1), Num(MaxDurationMinutes), Num(MaxDurationMinutes + 1),
                  Bool(TRUE), Bool(FALSE), Float(6000), Word("60")})

RECURSIVE DocsWithin(_)
DocsWithin(n) ==
    IF n = 0 THEN {SampleNormal, SampleBreakGlass}
    ELSE LET prev == DocsWithin(n - 1) IN
         prev \cup {ApplyEdit(d, e) : d \in prev, e \in Edits}

LintDocs == DocsWithin(MaxEdits) \cup {List(<<SampleNormal>>)}

InitLint ==
    /\ engine \in {"tools", "jamf"}
    /\ ring = "qa"
    /\ doc \in LintDocs
    /\ errors = NoLint
    /\ ReconcileIdle /\ EligIdle /\ DriftIdle /\ MainIdle /\ AuthIdle

\* lint_policy(path, doc) is called.
Lint ==
    /\ ~errors.called
    /\ LET r == LintPolicy(engine, doc) IN
       errors' = [called |-> TRUE, raised |-> r.raised, msgs |-> r.msgs]
    /\ UNCHANGED <<reconcileVars, eligVars, driftVars, mainVars, authVars>>

NextLint == Lint

SpecLint == InitLint /\ [][NextLint]_vars

---------------------------------------------------------------------------
(* Specification of the drift check: one policy whose settings are nested  *)
(* up to MaxNest deep on either side, with and without a second policy     *)

\* A value put into an object (as written, and with its keys the other way
\* round) and into a list (in either order).
Wrap(x) ==
    {Obj(<<<<"a", Num(1)>>, <<"b", x>>>>), Obj(<<<<"b", x>>, <<"a", Num(1)>>>>),
     List(<<Num(1), x>>), List(<<x, Num(1)>>)}

RECURSIVE SettingsValues(_)
SettingsValues(n) ==
    IF n = 0 THEN {Num(1), Num(2)}
    ELSE LET prev == SettingsValues(n - 1) IN prev \cup UNION {Wrap(x) : x \in prev}

DriftDoc(settings) == Dict([name |-> Word("p1"), settings |-> settings])
BareDoc == Dict([name |-> Word("p2")])

\* The other policies: on neither side, only desired, only actual, on both
\* without a settings key, or one only desired and another only actual.
SecondPolicy ==
    {<<{}, {}>>, <<{"p2"}, {}>>, <<{}, {"p2"}>>, <<{"p2"}, {"p2"}>>, <<{"p2"}, {"p3"}>>}

InitDrift ==
    /\ engine \in {"tools", "skeleton"}
    /\ ring = "qa"
    /\ doc = EmptyDict
    /\ \E ds \in SettingsValues(MaxNest), as \in SettingsValues(MaxNest), sp \in SecondPolicy :
          /\ desired = [n \in {"p1"} \cup sp[1] |-> IF n = "p1" THEN DriftDoc(ds) ELSE BareDoc]
          /\ actual = [n \in {"p1"} \cup sp[2] |-> IF n = "p1" THEN DriftDoc(as) ELSE BareDoc]
    /\ drift = NoDrift
    /\ ReconcileIdle /\ EligIdle /\ LintIdle /\ MainIdle /\ AuthIdle

\* compare(desired, actual) is called.
Compare ==
    /\ ~drift.called
    /\ LET r == CompareBy(engine, desired, actual) IN
       drift' = [called |-> TRUE, items |-> r.items, rc |-> r.rc]
    /\ UNCHANGED <<reconcileVars, eligVars, lintVars, desired, actual, mainVars, authVars>>

NextDrift == Compare

SpecDrift == InitDrift /\ [][NextDrift]_vars

---------------------------------------------------------------------------
(* Specification of the end-to-end run: policy X is reconciled by apply_all *)
(* (with the demo Connector, or one implemented as its comments say) on a   *)
(* backend holding its settings, its desired settings are changed, it is   *)
(* reconciled again, and desired is compared with the earlier snapshot      *)

ScenarioSettings ==
    {JamfSettings(XmlA), JamfSettings(XmlB), JamfSettings(XmlAPadded), OtherSettings,
     Dict([type |-> Word("registry"), a |-> Num(2)])}

\* The snapshot of the backend taken before the first run.
SnapshotOf(pol) == [n \in {NameOf(pol).v[1]} |-> Dict([settings |-> DesiredSettings(pol)])]

InitE2E ==
    /\ engine = "tools"
    /\ conn \in {"demo", "api"}
    /\ ring \in ALLOWED_RINGS
    /\ \E s1 \in ScenarioSettings :
          /\ policies = <<Policy("X", NormalMetadata, "macos", s1)>>
          /\ backend = [n \in {Word("X")} |-> s1]
    /\ actual = SnapshotOf(policies[1])
    /\ desired = [n \in {"X"} |-> policies[1]]
    /\ pc = "loop" /\ idx = 1 /\ results = <<>> /\ run = 1 /\ first = <<>>
    /\ calls = <<>> /\ faults = 0
    /\ doc = EmptyDict
    /\ drift = NoDrift
    /\ EligIdle /\ LintIdle /\ MainIdle /\ AuthIdle

\* The desired settings of X are changed in the repository, and the batch is
\* reconciled again.
MutateDesired ==
    /\ pc = "done" /\ run = 1
    /\ \E s2 \in ScenarioSettings :
          /\ s2 # DesiredSettings(policies[1])
          /\ policies' = <<Policy("X", NormalMetadata, "macos", s2)>>
    /\ desired' = [n \in {"X"} |-> policies'[1]]
    /\ run' = 2 /\ first' = results /\ results' = <<>> /\ calls' = <<>>
    /\ idx' = 1 /\ pc' = "loop"
    /\ UNCHANGED <<engine, conn, ring, backend, faults, actual, drift>>
    /\ UNCHANGED <<eligVars, lintVars, mainVars, authVars>>

\* drift_check compares the changed desired policies with the snapshot.
DriftCheck ==
    /\ pc = "done" /\ run = 2 /\ ~drift.called
    /\ LET r == CompareBy(engine, desired, actual) IN
       drift' = [called |-> TRUE, items |-> r.items, rc |-> r.rc]
    /\ UNCHANGED <<reconcileVars, eligVars, lintVars, desired, actual, mainVars, authVars>>

NextE2E == ApplyAllStep \/ MutateDesired \/ DriftCheck

SpecE2E == InitE2E /\ [][NextE2E]_vars

---------------------------------------------------------------------------
(* Specification of the apply command: a command line, a policies          *)
(* directory, a backend; main runs from argument parsing to its exit code  *)

RingArgs == {<<"qa">>, <<"_", "QA", "_">>, <<"Global">>, <<"beta">>, <<"_">>}

\* The documents of the directory: a policy the linter accepts, one it
\* rejects for its version only, applied, skipped and failing ones, and one
\* that is in order but for its blank payload.
MainDocs(n) ==
    {WithKey(SampleNormal, "name", Word(n)),
     WithKey(WithKey(SampleNormal, "name", Word(n)), "version", Str(V12)),
     Policy(n, NormalMetadata, "macos", JamfSettings(XmlA)),
     Policy(n, EmergencyMetadata, "macos", JamfSettings(XmlA)),
     Scoped(Policy(n, NormalMetadata, "macos", JamfSettings(XmlA)),
            Dict([supported_rings |-> List(<<Word("qa")>>)])),
     Scoped(Policy(n, NormalMetadata, "macos", JamfSettings(XmlA)), Word("qa")),
     Policy(n, NormalMetadata, "macos", JamfSettings(Blank)),
     WithKey(WithKey(SampleNormal, "name", Word(n)), "settings", JamfSettings(Blank))}

Directories ==
    {<<>>} \cup
    UNION {{b \in [1..k -> UNION {MainDocs(PolicyName(i)) : i \in 1..k}] :
                \A i \in 1..k : b[i] \in MainDocs(PolicyName(i))} : k \in 1..MaxBatch}

\* Command lines the argument parser accepts.  The Jamf command requires
\* --policies and has no --artifact.
CommandLines(e) ==
    {[ring |-> r, policies |-> pl, artifact |-> a, env |-> ev, dir |-> d] :
        r \in RingArgs, pl \in {"none", "missing", "dir"}, a \in {"none", "missing", "ok"},
        ev \in BOOLEAN, d \in Directories}

\* A usable command line may come with any directory; the others are tried
\* with one directory.
InitMain ==
    /\ \E ec \in {<<"tools", "demo">>, <<"tools", "api">>, <<"jamf", "jamf">>} :
          engine = ec[1] /\ conn = ec[2]
    /\ args \in CommandLines(engine)
    /\ engine = "jamf" => args.policies # "none" /\ args.artifact = "none"
    /\ engine = "tools" => args.env
    /\ \/ /\ NormalizeRing(args.ring) = "qa"
          /\ args.env
          /\ (args.policies = "dir" /\ args.artifact = "none")
                \/ (args.policies = "none" /\ args.artifact = "ok")
       \/ Len(args.dir) = 1 /\ args.dir[1] = Policy("p1", NormalMetadata, "macos", JamfSettings(XmlA))
    /\ ring = "unset"
    /\ policies = <<>>
    /\ \E held \in InitiallyHeld(conn) :
          backend = [n \in {Word(PolicyName(i)) : i \in 1..MaxBatch} |-> held]
    /\ pc = "start" /\ idx = 1 /\ results = <<>> /\ run = 1 /\ first = <<>>
    /\ calls = <<>> /\ faults = 0
    /\ exit = <<>> /\ audit = NoAudit
    /\ doc = EmptyDict
    /\ EligIdle /\ LintIdle /\ DriftIdle /\ AuthIdle

NextMain ==
    MainStartTools \/ MainStartJamf \/ ApplyAllStep \/ JamfMainStep \/ MainFinish \/ MainCrash

SpecMain == InitMain /\ [][NextMain]_vars

---------------------------------------------------------------------------
(* Specification of token acquisition: one JamfAuth instance, MaxCallers    *)
(* threads calling token(), interleaved at the network call                 *)

InitAuth ==
    /\ engine = "jamf"
    /\ ring = "qa"
    /\ doc = EmptyDict
    /\ auth = [NoAuth EXCEPT !.tpc = [t \in Callers |-> "idle"], !.tok = [t \in Callers |-> 0]]
    /\ ReconcileIdle /\ EligIdle /\ LintIdle /\ DriftIdle /\ MainIdle

NextAuth ==
    \E t \in Callers :
        /\ TokenEnter(t) \/ TokenPost(t) \/ TokenStore(t)
        /\ UNCHANGED <<reconcileVars, eligVars, lintVars, driftVars, mainVars>>

SpecAuth == InitAuth /\ [][NextAuth]_vars

---------------------------------------------------------------------------
(* Properties of reconciliation (checked under Spec) *)

\* The policy carries metadata.emergency_use_only = true.
IsEmergency(pol) ==
    /\ "metadata" \in DOMAIN pol.v
    /\ pol.v["metadata"].t = "dict"
    /\ "emergency_use_only" \in DOMAIN pol.v["metadata"].v
    /\ pol.v["metadata"].v["emergency_use_only"] = Bool(TRUE)

\* The policy's scope, when it has one that is an object.
ScopeObject(pol) ==
    IF "scope" \in DOMAIN pol.v /\ pol.v["scope"].t = "dict" THEN pol.v["scope"] ELSE EmptyDict

\* scope is absent, empty or an object; metadata and settings are objects.
WellFormed(pol) ==
    /\ "scope" \in DOMAIN pol.v => (pol.v["scope"].t = "dict" \/ ~Truthy(pol.v["scope"]))
    /\ pol.v["metadata"].t = "dict"
    /\ pol.v["settings"].t = "dict"

\* The ring is allowed by the policy's scope.supported_rings.
RingAllowed(pol, r) ==
    LET sc == ScopeObject(pol) IN
    \/ "supported_rings" \notin DOMAIN sc.v
    \/ /\ sc.v["supported_rings"].t = "list"
       /\ \E i \in 1..Len(sc.v["supported_rings"].v) : sc.v["supported_rings"].v[i] = Word(r)

\* The policy passes the break-glass and ring-eligibility checks.
PassesChecks(pol, r) == WellFormed(pol) /\ ~IsEmergency(pol) /\ RingAllowed(pol, r)

\* C1 (as claimed): reconcile run twice in a row against the same backend,
\* with no connector error: every policy that passes the break-glass and
\* ring-eligibility checks and got status applied in the first run gets
\* status no_change in the second.
C1_IdempotentReconcile ==
    (pc = "done" /\ run = 2 /\ faults = 0 /\ \A i \in 1..Len(policies) : WellFormed(policies[i]))
        => \A i \in 1..Len(policies) :
              (PassesChecks(policies[i], ring) /\ first[i].status = "applied")
                  => results[i].status = "no_change"

\* The policy has the payload its platform needs (nothing fails before the
\* connector is reached).
HasPayload(pol) ==
    LET st == pol.v["settings"] IN
    /\ "profile_plist_xml" \in DOMAIN st.v
    /\ st.v["profile_plist_xml"].t = "str"
    /\ Strip(st.v["profile_plist_xml"].v) # <<>>

Failed(rs) == {i \in 1..Len(rs) : rs[i].status = "failed"}

\* C2 (as claimed): a first run over N well-formed policies in which exactly
\* one connector call (fetch or apply) raised does not end in an exception;
\* when it ends it has returned N results of which exactly one is failed,
\* carrying the error message.
C2_FaultIsolation ==
    (run = 1 /\ faults = 1 /\ pc # "loop"
        /\ \A i \in 1..Len(policies) : WellFormed(policies[i]) /\ HasPayload(policies[i]))
        => /\ pc = "done"
           /\ Len(results) = Len(policies)
           /\ Cardinality(Failed(results)) = 1
           /\ \A i \in Failed(results) : results[i].detail = "connector error"

\* C3: in every ring, a policy with metadata.emergency_use_only = true never
\* gets a result other than skipped, whatever its scope.supported_rings, and
\* the connector is never called (fetch or apply) for it.
C3_BreakGlassExcluded ==
    /\ \A i \in 1..Len(results) : IsEmergency(policies[i]) => results[i].status = "skipped"
    /\ \A i \in 1..Len(first) : IsEmergency(policies[i]) => first[i].status = "skipped"
    /\ \A j \in 1..Len(calls) :
          \A i \in 1..Len(policies) :
              IsEmergency(policies[i]) => calls[j].name # NameOf(policies[i])

\* C3 witness: an emergency policy supporting all four rings has been
\* reconciled by apply_all in ring global, and skipped.
C3_Witness ==
    /\ engine = "tools" /\ ring = "global"
    /\ \E i \in 1..Len(results) :
          /\ IsEmergency(policies[i])
          /\ ScopeObject(policies[i]) = Dict([supported_rings |-> AllRingsList])
          /\ results[i].status = "skipped"

Statuses == {"applied", "no_change", "skipped", "failed"}

\* The i-th result is the i-th policy's, with a known status.
InInputOrder(rs) ==
    /\ Len(rs) <= Len(policies)
    /\ \A i \in 1..Len(rs) :
          rs[i].policy_name = NameOf(policies[i]) /\ rs[i].status \in Statuses

\* C14: every list reconcile returns has exactly one ApplyResult per input
\* policy, the i-th result is the i-th input policy's, and every status is
\* applied, no_change, skipped or failed; while the loop runs, the results
\* so far are those of the policies processed so far, in input order.
C14_OneOutcomePerPolicy ==
    /\ InInputOrder(results)
    /\ pc = "loop" => Len(results) = idx - 1
    /\ pc = "done" => Len(results) = Len(policies)
    /\ run = 2 => InInputOrder(first) /\ Len(first) = Len(policies)

\* C14 witness: a batch of two was reconciled, the first policy skipped and
\* the second applied.
C14_Witness ==
    /\ pc = "done" /\ Len(policies) = 2 /\ Len(results) = 2
    /\ results[1].status = "skipped" /\ results[1].policy_name = Word("p1")
    /\ results[2].status = "applied" /\ results[2].policy_name = Word("p2")

\* The result a step has just appended, if it appended one.
Appended(res) == Len(results') = Len(results) + 1 /\ results'[Len(results')] = res

\* C19 (as claimed): the fetch reports absence exactly when the backend holds
\* nothing under the name, so a step that creates a profile does so only for
\* a name the backend did not hold, and a step that updates one only for a
\* name it held.
C19_FetchFaithful ==
    [][\A n \in DOMAIN backend :
          /\ Appended(ApplyResult(n, "applied", "created profile")) => backend[n].t = "null"
          /\ Appended(ApplyResult(n, "applied", "updated profile")) => backend[n].t # "null"]_vars

\* A macOS Jamf profile policy whose settings.profile_plist_xml is missing,
\* empty or blank.
LacksPayload(pol) ==
    LET st == pol.v["settings"] IN
    /\ pol.v["platform"] = Word("macos")
    /\ st.t = "dict"
    /\ Get(st, "type") = Word("jamf_configuration_profile")
    /\ LET payload == Get(st, "profile_plist_xml") IN
       \/ ~Truthy(payload)
       \/ payload.t = "str" /\ Strip(payload.v) = <<>>

\* C20 (as claimed): a policy that passes the break-glass and eligibility
\* checks but lacks its platform payload gets status failed, and the
\* connector is called neither to fetch nor to apply it.
C20_PrerequisiteFailure ==
    \A i \in 1..Len(results) :
        (PassesChecks(policies[i], ring) /\ LacksPayload(policies[i]))
            => /\ results[i].status = "failed"
               /\ \A j \in 1..Len(calls) : calls[j].name # NameOf(policies[i])

\* The step fetched the current state of the policy at hand, and the fetch
\* returned (a fetch that raises is the step's only call and costs a fault).
FetchReturned ==
    /\ pc = "loop"
    /\ Len(calls') > Len(calls)
    /\ calls'[Len(calls) + 1] = Call("fetch", NameOf(policies[idx]))
    /\ ~(faults' # faults /\ Len(calls') = Len(calls) + 1)

\* The step called apply (create or update) for the policy at hand.
ApplyCalled ==
    /\ pc = "loop"
    /\ Len(calls') = Len(calls) + 2
    /\ calls'[Len(calls')] = Call("apply", NameOf(policies[idx]))

\* What the connector hands back for the policy at hand is present and equal
\* to the policy's desired settings: the held settings for a connector that
\* GETs the policy, the held payload for Jamf when it is recognisable as a
\* plist; the demo connector hands back nothing.
CurrentEqualsDesired ==
    LET pol == policies[idx]
        held == backend[NameOf(pol)]
    IN
    IF conn = "demo" THEN FALSE
    ELSE IF engine = "tools"
    THEN held.t # "null" /\ PyEq(held, DesiredSettings(pol))
    ELSE /\ held.t = "str" /\ held.v # <<>> /\ Head(held.v) = "<?xml"
         /\ held = Get(pol.v["settings"], "profile_plist_xml")

\* C21: a step whose fetch returns settings that are present and equal to
\* the desired ones records no_change, calls no apply and leaves the backend
\* as it was; a step that calls apply had a fetch that returned nothing or
\* something different.
C21_NoWriteOnNoChange ==
    [][/\ (FetchReturned /\ CurrentEqualsDesired)
            => /\ Len(results') = Len(results) + 1
               /\ results'[Len(results')].status = "no_change"
               /\ ~ApplyCalled
               /\ backend' = backend
       /\ ApplyCalled => (FetchReturned /\ ~CurrentEqualsDesired)
       /\ (pc = "loop" /\ Len(results') = Len(results) + 1
             /\ results'[Len(results')].status = "no_change")
            => (~ApplyCalled /\ backend' = backend)]_vars

\* C21 witness: in a first run both engines have met a policy whose settings
\* the backend already held, and recorded no_change after a fetch alone.
C21_Witness ==
    /\ run = 1 /\ pc = "done" /\ Len(policies) = 1
    /\ results = <<ApplyResult(Word("p1"), "no_change",
                       IF engine = "jamf" THEN "Jamf payload already matches"
                       ELSE "already compliant")>>
    /\ calls = <<Call("fetch", Word("p1"))>>
    /\ backend[Word("p1")].t # "null"

\* The details with which the two engines report the break-glass exclusion.
EmergencyDetails == {"emergency-use-only policy", "emergency-use-only policy (break-glass)"}

\* C22 (as claimed): a policy that is emergency_use_only and also not
\* eligible for the ring is skipped with the detail of the emergency rule,
\* not that of the ring restriction.
C22_BreakGlassFirst ==
    \A i \in 1..Len(results) :
        (IsEmergency(policies[i]) /\ ~RingAllowed(policies[i], ring))
            => /\ results[i].status = "skipped"
               /\ results[i].detail \in EmergencyDetails

---------------------------------------------------------------------------
(* Properties of the eligibility resolver (checked under SpecElig) *)

\* scope.supported_rings of the document: whether the key is there, and its value.
HasSupportedRings == "supported_rings" \in DOMAIN ScopeObject(doc).v
SupportedRings == IF HasSupportedRings THEN ScopeObject(doc).v["supported_rings"] ELSE Null
RingListed == \E i \in 1..Len(SupportedRings.v) : SupportedRings.v[i] = Word(ring)

\* C4 (as claimed): is_eligible returns true when scope.supported_rings is
\* absent, membership of the ring when it is a list, and false when it is
\* present and not a list.
C4_EligibilityAsClaimed ==
    (eligible.called /\ ~eligible.raised)
        => /\ ~HasSupportedRings => eligible.value
           /\ (HasSupportedRings /\ SupportedRings.t = "list") => (eligible.value <=> RingListed)
           /\ (HasSupportedRings /\ SupportedRings.t # "list") => ~eligible.value

\* C4 (amended): whenever is_eligible returns, it returns true when
\* scope.supported_rings is absent or null, membership of the ring when it
\* is a list, and false for every other value.
C4_EligibilityResult ==
    (eligible.called /\ ~eligible.raised)
        => /\ (~HasSupportedRings \/ SupportedRings.t = "null") => eligible.value
           /\ (HasSupportedRings /\ SupportedRings.t = "list") => (eligible.value <=> RingListed)
           /\ (HasSupportedRings /\ SupportedRings.t \notin {"null", "list"}) => ~eligible.value

\* C4 witness: a supported_rings that is a string was resolved, and refused.
C4_Witness ==
    /\ eligible.called /\ ~eligible.raised /\ ~eligible.value
    /\ HasSupportedRings /\ SupportedRings = Word("qa") /\ ring = "qa"

\* C5 (as claimed): is_eligible returns a boolean and never raises, for every
\* policy document, a malformed scope included.
C5_EligibilityTotal == eligible.called => ~eligible.raised


---------------------------------------------------------------------------
(* Properties of the validator (checked under SpecLint) *)

Returned == errors.called /\ ~errors.raised
Msgs == {errors.msgs[i] : i \in 1..Len(errors.msgs)}

\* All five required top-level fields are there.
TopComplete == doc.t = "dict" /\ REQUIRED_TOP_LEVEL \subseteq DOMAIN doc.v

\* metadata / time_constraints of the document, when they are objects.
DocMetadata ==
    IF "metadata" \in DOMAIN doc.v /\ doc.v["metadata"].t = "dict"
    THEN doc.v["metadata"] ELSE EmptyDict
HasTimeConstraints == "time_constraints" \in DOMAIN doc.v
DocTimeConstraints ==
    IF HasTimeConstraints /\ doc.v["time_constraints"].t = "dict"
    THEN doc.v["time_constraints"] ELSE EmptyDict

MetaIs(k, w) == k \in DOMAIN DocMetadata.v /\ DocMetadata.v[k] = Word(w)
MetaOneOf(k, S) == \E w \in S : MetaIs(k, w)

\* The version strings of the samples that are semantic versions for
\* SEMVER_RE ("1.2.3\n" is one: `$` matches before a final newline).
SemverSamples == {Str(V123), Str(VPrerelease), Str(VNewline)}

NameOk == doc.v["name"].t = "str" /\ \E i \in 1..Len(doc.v["name"].v) : doc.v["name"].v[i] # "_"
PlatformOk == \E w \in ALLOWED_PLATFORMS : doc.v["platform"] = Word(w)
VersionOk == doc.v["version"] \in SemverSamples

BreakGlassMessages ==
    {"break-glass must have rollout_strategy=manual-only",
     "break-glass must have risk_level=critical",
     "break-glass must set metadata.emergency_use_only=true",
     "break-glass must enable time_constraints.auto_expire=true",
     "break-glass max_duration_minutes must be an int between 1 and 240",
     "break-glass max_duration_minutes must be int 1..240",
     "break-glass must include time_constraints object"}

\* The break-glass violations reported, in order.
BreakGlassReported == SelectSeq(errors.msgs, LAMBDA m : m \in BreakGlassMessages)

\* C6: whenever lint_policy returns, a document missing a required top-level
\* field gets that single violation; a document with all of them gets one
\* violation for each failed check of name, platform, version, required
\* metadata fields, risk_level and rollout_strategy, whatever else fails; so
\* version "1.2" together with a missing metadata.risk_level gives at least
\* two distinct violations from the one call.
C6_ValidatorCompleteness ==
    Returned =>
        /\ ~TopComplete => errors.msgs = <<"Missing top-level fields">>
        /\ TopComplete =>
              /\ "Missing top-level fields" \notin Msgs
              /\ ("name must be a non-empty string" \in Msgs) <=> ~NameOk
              /\ ("platform must be one of" \in Msgs) <=> ~PlatformOk
              /\ ("version must be semver" \in Msgs) <=> ~VersionOk
              /\ ("Missing metadata fields" \in Msgs)
                    <=> ~(REQUIRED_METADATA \subseteq DOMAIN DocMetadata.v)
              /\ ("metadata.risk_level must be one of" \in Msgs)
                    <=> ("risk_level" \in DOMAIN DocMetadata.v /\ ~MetaOneOf("risk_level", ALLOWED_RISK))
              /\ ("metadata.rollout_strategy must be one of" \in Msgs)
                    <=> ("rollout_strategy" \in DOMAIN DocMetadata.v
                            /\ ~MetaOneOf("rollout_strategy", ALLOWED_ROLLOUT))
              /\ (doc.v["version"] = Str(V12) /\ "risk_level" \notin DOMAIN DocMetadata.v)
                    => Cardinality(Msgs) >= 2

\* C6 witness: a document with version "1.2" and no metadata.risk_level has
\* been linted, and both violations are in the one result.
C6_Witness ==
    /\ Returned /\ TopComplete
    /\ doc.v["version"] = Str(V12) /\ "risk_level" \notin DOMAIN DocMetadata.v
    /\ errors.msgs = <<"version must be semver", "Missing metadata fields">>

\* The case of C7: a policy with a break-glass name, no time_constraints,
\* and metadata that breaks the three break-glass metadata rules.
BrokenBreakGlass ==
    /\ TopComplete
    /\ \E w \in BREAK_GLASS_NAMES : doc.v["name"] = Word(w)
    /\ ~HasTimeConstraints
    /\ ~MetaIs("rollout_strategy", "manual-only")
    /\ ~MetaIs("risk_level", "critical")
    /\ ~("emergency_use_only" \in DOMAIN DocMetadata.v
            /\ DocMetadata.v["emergency_use_only"] = Bool(TRUE))

\* C7 (as claimed): for a break-glass policy with no time_constraints whose
\* metadata breaks the three metadata rules, lint_policy reports exactly four
\* break-glass violations.
C7_FourViolations == (Returned /\ BrokenBreakGlass) => Len(BreakGlassReported) = 4

\* C7 (amended): for such a policy lint_policy reports exactly five
\* break-glass violations: rollout_strategy, risk_level, emergency_use_only,
\* and two for the missing time_constraints (auto_expire and
\* max_duration_minutes).
C7_FiveViolations ==
    (Returned /\ BrokenBreakGlass) =>
        \E m \in {"break-glass max_duration_minutes must be an int between 1 and 240",
                  "break-glass max_duration_minutes must be int 1..240"} :
            BreakGlassReported = <<"break-glass must have rollout_strategy=manual-only",
                                   "break-glass must have risk_level=critical",
                                   "break-glass must set metadata.emergency_use_only=true",
                                   "break-glass must enable time_constraints.auto_expire=true",
                                   m>>

\* C7 witness: such a policy has been linted by the tools linter.
C7_Witness == Returned /\ BrokenBreakGlass /\ engine = "tools" /\ Len(errors.msgs) >= 5

\* A break-glass guardrail the document lacks: manual-only rollout, critical
\* risk, or valid time_constraints.
LacksGuardrail ==
    \/ ~MetaIs("rollout_strategy", "manual-only")
    \/ ~MetaIs("risk_level", "critical")
    \/ ~HasTimeConstraints

EmergencyFlagged ==
    "emergency_use_only" \in DOMAIN DocMetadata.v /\ DocMetadata.v["emergency_use_only"] = Bool(TRUE)

\* C8 (as claimed): a policy whose name is a reserved identifier or whose
\* metadata.emergency_use_only is true, and that lacks manual-only rollout,
\* critical risk or time_constraints, gets at least one break-glass violation
\* whenever lint_policy returns.
C8_BreakGlassRecognition ==
    (/\ Returned /\ TopComplete
     /\ (EmergencyFlagged \/ \E w \in BREAK_GLASS_NAMES : doc.v["name"] = Word(w))
     /\ LacksGuardrail)
        => BreakGlassReported # <<>>

\* C9 (as claimed): every policy with a break-glass name for which
\* lint_policy returns no violation has rollout_strategy manual-only,
\* risk_level critical, emergency_use_only true, time_constraints.auto_expire
\* true and time_constraints.max_duration_minutes an integer, not a boolean,
\* between 1 and 240.
C9_GuardrailInvariant ==
    (/\ Returned /\ errors.msgs = <<>>
     /\ \E w \in BREAK_GLASS_NAMES : doc.v["name"] = Word(w))
        => /\ MetaIs("rollout_strategy", "manual-only")
           /\ MetaIs("risk_level", "critical")
           /\ EmergencyFlagged
           /\ Get(DocTimeConstraints, "auto_expire") = Bool(TRUE)
           /\ Get(DocTimeConstraints, "max_duration_minutes").t = "int"
           /\ 1 <= Get(DocTimeConstraints, "max_duration_minutes").v
           /\ Get(DocTimeConstraints, "max_duration_minutes").v <= MaxDurationMinutes

\* C13 (as claimed): lint_policy returns a list of violations and never
\* raises, for every document that is an object with the required top-level
\* fields, whatever the types of metadata, settings, scope,
\* telemetry_expectations and time_constraints.
C13_ValidatorTotal == (errors.called /\ TopComplete) => ~errors.raised

---------------------------------------------------------------------------
(* Properties of the drift check (checked under SpecDrift) *)

\* A settings value with the order of its object keys forgotten, at every
\* depth; lists keep their order.
RECURSIVE Unordered(_)
Unordered(x) ==
    IF x.t = "obj" THEN Dict([k \in Keys(x) |-> Unordered(Lookup(x, k))])
    ELSE IF x.t = "list" THEN List([i \in 1..Len(x.v) |-> Unordered(x.v[i])])
    ELSE x

DesiredSettingsP1 == desired["p1"].v["settings"]
ActualSettingsP1 == actual["p1"].v["settings"]

\* The same elements in a different order.
Reordered(l1, l2) ==
    /\ l1.t = "list" /\ l2.t = "list" /\ Len(l1.v) = Len(l2.v)
    /\ l1.v # l2.v
    /\ \E f \in [1..Len(l1.v) -> 1..Len(l1.v)] :
          /\ \A i, j \in 1..Len(l1.v) : f[i] = f[j] => i = j
          /\ \A i \in 1..Len(l1.v) : l2.v[i] = l1.v[f[i]]

\* C10: compare reports no drift for a policy whose desired and actual
\* settings differ only in the order of object keys, at any depth, and
\* settings_drift in every other case; so {a:1,b:2} against {b:2,a:1} gives
\* no entry, and a list against the same elements in another order ([1,2]
\* against [2,1]) gives settings_drift.
C10_DriftNormalization ==
    drift.called =>
        /\ ("p1" \in DOMAIN drift.items)
              <=> (Unordered(DesiredSettingsP1) # Unordered(ActualSettingsP1))
        /\ "p1" \in DOMAIN drift.items => drift.items["p1"].status = "settings_drift"
        /\ (/\ DesiredSettingsP1 = Obj(<<<<"a", Num(1)>>, <<"b", Num(2)>>>>)
            /\ ActualSettingsP1 = Obj(<<<<"b", Num(2)>>, <<"a", Num(1)>>>>))
              => "p1" \notin DOMAIN drift.items
        /\ Reordered(DesiredSettingsP1, ActualSettingsP1) => "p1" \in DOMAIN drift.items

\* C10 witness: settings whose keys are in another order at both depths
\* ({a:1, b:{a:1,b:2}} against {b:{b:2,a:1}, a:1}) were compared by the
\* normalizing check, without a drift entry.
C10_Witness ==
    /\ drift.called /\ engine = "tools"
    /\ DesiredSettingsP1 =
          Obj(<<<<"a", Num(1)>>, <<"b", Obj(<<<<"a", Num(1)>>, <<"b", Num(2)>>>>)>>>>)
    /\ ActualSettingsP1 =
          Obj(<<<<"b", Obj(<<<<"b", Num(2)>>, <<"a", Num(1)>>>>)>>, <<"a", Num(1)>>>>)
    /\ "p1" \notin DOMAIN drift.items

\* Whether a name on both sides has the same settings up to key order (or
\* no settings on either side).
SameSettings(n) ==
    IF "settings" \in DOMAIN desired[n].v /\ "settings" \in DOMAIN actual[n].v
    THEN Unordered(desired[n].v["settings"]) = Unordered(actual[n].v["settings"])
    ELSE "settings" \notin DOMAIN desired[n].v /\ "settings" \notin DOMAIN actual[n].v

OnlyDesired == DOMAIN desired \ DOMAIN actual
OnlyActual == DOMAIN actual \ DOMAIN desired
Drifted == {n \in DOMAIN desired \cap DOMAIN actual : ~SameSettings(n)}

---------------------------------------------------------------------------
(* Properties of the end-to-end run (checked under SpecE2E) *)

\* C12 (as claimed): with no connector error, the first reconcile of X
\* against a backend holding its settings returns [X: no_change]; after the
\* desired settings are changed the second returns [X: applied]; and the
\* drift check of the changed desired against the earlier snapshot reports
\* {X: settings_drift}.
C12_EndToEnd ==
    faults = 0 =>
        /\ (run = 1 /\ pc = "done")
              => Len(results) = 1 /\ results[1].status = "no_change"
        /\ (run = 2 /\ pc = "done")
              => /\ Len(first) = 1 /\ first[1].status = "no_change"
                 /\ Len(results) = 1 /\ results[1].status = "applied"
        /\ drift.called
              => DOMAIN drift.items = {"X"} /\ drift.items["X"].status = "settings_drift"

---------------------------------------------------------------------------
(* Properties of the apply command (checked under SpecMain) *)

\* A usage or path error: a ring outside the enumeration, neither --policies
\* nor --artifact, or a path that does not exist.
UsageError ==
    \/ NormalizeRing(args.ring) \notin ALLOWED_RINGS
    \/ args.policies = "none" /\ args.artifact = "none"
    \/ args.artifact = "missing"
    \/ args.artifact = "none" /\ args.policies = "missing"

\* C15 (as claimed): the apply command exits 2 on a usage or path error,
\* without attempting reconciliation; when it has reconciled, it exits 1 if a
\* result is failed and 0 if none is.
C15_ExitCodes ==
    /\ (exit # <<>> /\ UsageError)
          => exit = <<2>> /\ policies = <<>> /\ results = <<>> /\ calls = <<>>
    /\ (exit # <<>> /\ pc = "exited" /\ ~UsageError /\ args.env)
          => exit = (IF \E i \in 1..Len(results) : results[i].status = "failed"
                     THEN <<1>> ELSE <<0>>)

\* The number of results of the audit record with a status.
Recorded(st) == Cardinality({i \in 1..Len(audit.results) : audit.results[i].status = st})

\* C17: in every audit record the summary count of each of applied,
\* no_change, skipped and failed is the number of results with that status,
\* the four counts add up to the number of results, and the results are
\* those reconcile produced, in its order.
C17_AuditSummary ==
    audit.written =>
        /\ audit.summary.applied = Recorded("applied")
        /\ audit.summary.no_change = Recorded("no_change")
        /\ audit.summary.skipped = Recorded("skipped")
        /\ audit.summary.failed = Recorded("failed")
        /\ audit.summary.applied + audit.summary.no_change + audit.summary.skipped
              + audit.summary.failed = Len(audit.results)
        /\ audit.results = results
        /\ InInputOrder(audit.results)
        /\ audit.ring = ring

\* C17 witness: the record of a run with one skipped and one failed result.
C17_Witness ==
    /\ audit.written /\ Len(audit.results) = 2
    /\ audit.results[1].status = "skipped" /\ audit.results[2].status = "failed"
    /\ audit.summary = [applied |-> 0, no_change |-> 0, skipped |-> 1, failed |-> 1]

\* The linter of the engine's directory returns no violation for the policy.
Validated(pol) == LintPolicy(engine, pol) = LintOk(<<>>)

\* C16 (as claimed): the connector is called (fetch or apply) only for
\* policies for which the validator reports no violation.
C16_ValidationGate ==
    \A j \in 1..Len(calls) :
        \A i \in 1..Len(policies) :
            calls[j].name = NameOf(policies[i]) => Validated(policies[i])

\* A macOS policy marked as a Jamf configuration profile.
IsJamfProfile(pol) ==
    /\ Get(pol, "platform") = Word("macos")
    /\ Get(pol, "settings").t = "dict"
    /\ Get(Get(pol, "settings"), "type") = Word("jamf_configuration_profile")

\* C23: a macOS Jamf profile policy for which the Jamf-aware validator
\* returns no violation has a payload that is not empty after trimming, and
\* reconcile never reports it failed for a missing payload.
C23_PayloadAgreement ==
    \A i \in 1..Len(policies) :
        (IsJamfProfile(policies[i]) /\ lint_policy_jamf(policies[i]) = LintOk(<<>>))
            => /\ HasPayload(policies[i])
               /\ i <= Len(results) =>
                     results[i] # ApplyResult(NameOf(policies[i]), "failed",
                                              "missing settings.profile_plist_xml")

\* C23 witness: the Jamf command has reconciled a profile policy the
\* validator accepts, next to one it rejects for its blank payload, applied
\* the first and failed the second.
C23_Witness ==
    /\ engine = "jamf" /\ pc = "exited" /\ Len(results) = 2
    /\ IsJamfProfile(policies[1]) /\ lint_policy_jamf(policies[1]) = LintOk(<<>>)
    /\ results[1].status = "applied"
    /\ IsJamfProfile(policies[2]) /\ lint_policy_jamf(policies[2]) # LintOk(<<>>)
    /\ results[2] = ApplyResult(Word("p2"), "failed", "missing settings.profile_plist_xml")

---------------------------------------------------------------------------
(* Properties of token acquisition (checked under SpecAuth) *)

\* C18 (as claimed): under any interleaving of the callers of token() the
\* token endpoint grants at most one token, and every caller gets the same
\* token value.
C18_AcquireOnce == auth.granted <= 1 /\ Cardinality(auth.returned) <= 1

=============================================================================
